---- MODULE Spec2Model ----
(***************************************************************************)
(* Inclusion-list verification of core/inclusion_list.go:                  *)
(*   verifyInclusionList         (StandaloneValidator, "validate")         *)
(*   verifyInclusionListInBlock  (BlockReconciler, "reconcile")            *)
(*                                                                         *)
(* Two revisions of verifyInclusionList are modelled side by side:         *)
(*   rev = "core"  : src/core/inclusion_list.go (errors.New, nonce+1 rule) *)
(*   rev = "typed" : src/unnamed/part_000:217-299 (Err* values, nonce      *)
(*                   rule tx.Nonce() == nonce)                             *)
(* They differ only in the nonce rule; each return site is named by the    *)
(* error kind the typed revision gives it.                                 *)
(***************************************************************************)
EXTENDS Integers, Sequences, FiniteSets, TLC

(***************************************************************************)
(* Unsigned integers wider than the 32-bit integers of TLC.  A number      *)
(* is its little-endian sequence of 16-bit limbs without high zero limbs;  *)
(* zero is << >>.  uint64 and uint32 values are such numbers of at most 4  *)
(* and 2 limbs, *big.Int values have any length.                           *)
(***************************************************************************)
Base == 2^16

RECURSIVE Norm(_)
Norm(s) ==
    IF s = << >> THEN << >>
    ELSE IF s[Len(s)] = 0 THEN Norm(SubSeq(s, 1, Len(s) - 1))
    ELSE s

RECURSIVE AddC(_, _, _)
AddC(a, b, c) ==
    IF a = << >> /\ b = << >> THEN (IF c = 0 THEN << >> ELSE <<c>>)
    ELSE LET x == IF a = << >> THEN 0 ELSE Head(a)
             y == IF b = << >> THEN 0 ELSE Head(b)
             s == x + y + c
         IN  <<s % Base>> \o AddC(IF a = << >> THEN a ELSE Tail(a),
                                  IF b = << >> THEN b ELSE Tail(b),
                                  s \div Base)

\* a + b, exact
AddL(a, b) == Norm(AddC(a, b, 0))

RECURSIVE SubC(_, _, _)
SubC(a, b, c) ==
    IF a = << >> THEN << >>
    ELSE LET y == IF b = << >> THEN 0 ELSE Head(b)
             d == Head(a) - y - c
         IN  <<d % Base>> \o SubC(Tail(a),
                                  IF b = << >> THEN b ELSE Tail(b),
                                  IF d < 0 THEN 1 ELSE 0)

\* a - b for a >= b, exact
SubL(a, b) == Norm(SubC(a, b, 0))

RECURSIVE MulC(_, _, _)
MulC(a, m, c) ==
    IF a = << >> THEN (IF c = 0 THEN << >> ELSE <<c>>)
    ELSE LET s == Head(a) * m + c
         IN  <<s % Base>> \o MulC(Tail(a), m, s \div Base)

\* a * m for a small multiplier m, exact
MulSmall(a, m) == Norm(MulC(a, m, 0))

\* <<quotient limbs (high limb first dropped into place), remainder>> of a by m
RECURSIVE DivC(_, _)
DivC(a, m) ==
    IF a = << >> THEN [q |-> << >>, r |-> 0]
    ELSE LET hi == DivC(Tail(a), m)
             n  == hi.r * Base + Head(a)
         IN  [q |-> <<n \div m>> \o hi.q, r |-> n % m]

\* the integer quotient of a by a small divisor m
DivSmall(a, m) == Norm(DivC(a, m).q)

\* -1, 0, 1 as a < b, a = b, a > b
RECURSIVE CmpL(_, _)
CmpL(a, b) ==
    IF Len(a) # Len(b) THEN (IF Len(a) < Len(b) THEN -1 ELSE 1)
    ELSE IF a = << >> THEN 0
    ELSE IF a[Len(a)] # b[Len(b)]
         THEN (IF a[Len(a)] < b[Len(b)] THEN -1 ELSE 1)
    ELSE CmpL(SubSeq(a, 1, Len(a) - 1), SubSeq(b, 1, Len(b) - 1))

\* the low k limbs of a: a modulo 2^(16k)
Trunc(a, k) == Norm(SubSeq(a, 1, IF Len(a) < k THEN Len(a) ELSE k))

RECURSIVE BitLenLimb(_)
BitLenLimb(x) == IF x = 0 THEN 0 ELSE 1 + BitLenLimb(x \div 2)

\* x.BitLen()
BitLen(a) == IF a = << >> THEN 0 ELSE 16 * (Len(a) - 1) + BitLenLimb(a[Len(a)])

\* 2^k
Pow2(k) == [j \in 1..(k \div 16 + 1) |-> IF j = k \div 16 + 1 THEN 2^(k % 16) ELSE 0]

\* a machine integer n >= 0 as a number
RECURSIVE FromNat(_)
FromNat(n) == IF n = 0 THEN << >> ELSE <<n % Base>> \o FromNat(n \div Base)

(***************************************************************************)
(* uint64 and uint32 arithmetic of Go.                                     *)
(***************************************************************************)
\* a + b in uint64: the sum modulo 2^64
U64Add(a, b) == Trunc(AddL(a, b), 4)

\* uint32(a) of a uint64 a: a modulo 2^32
U32(a) == Trunc(a, 2)

(***************************************************************************)
(* Constants of the program.                                               *)
(***************************************************************************)
MAX_TRANSACTIONS_PER_INCLUSION_LIST == 16
MAX_GAS_PER_INCLUSION_LIST == Pow2(21)

\* Error kinds, one per return site of verifyInclusionList
ErrSizeMismatch == "SizeMismatch"
ErrSizeExceeded == "SizeExceeded"
ErrUnsupportedTxType == "UnsupportedTxType"
ErrGasLimitExceeded == "GasLimitExceeded"
ErrInvalidTx == "InvalidTx"
ErrSenderMismatch == "SenderMismatch"
ErrIncorrectNonce == "IncorrectNonce"
ErrInsufficientGasFeeCap == "InsufficientGasFeeCap"
\* return true, nil
Success == "ok"
\* no verdict yet
Running == "running"

(***************************************************************************)
(* Bounds and input universes.                                             *)
(***************************************************************************)
\* longest list drawn entry by entry
MaxLen == 2

Addresses == {"A", "B"}
\* types.Sender returns an error for a transaction whose from is NoSender
NoSender == "none"
TxTypes == {"LegacyTxType", "BlobTxType"}
BlobTxType == "BlobTxType"

G20 == Pow2(20)
G21 == Pow2(21)
\* 2^64 - 2^20: added to 2^20 the uint64 total wraps to 0
GWrap == SubL(Pow2(64), Pow2(20))
GasValues == {G20, G21, GWrap}
Nonces == 0..2
\* base fee 8 has the exact threshold 9
SmallBaseFee == FromNat(8)
SmallCaps == {FromNat(8), FromNat(9)}

Txs ==
    [type : TxTypes, gas : GasValues, from : Addresses \cup {NoSender},
     nonce : Nonces, gasFeeCap : SmallCaps]

\* a summary address paired with the transaction at the same index
FullEntries == [addr : Addresses, tx : Txs]

\* entries that pass every check that looks at the entry alone
GoodEntries ==
    {e \in FullEntries :
        /\ e.tx.type # BlobTxType
        /\ e.tx.gas = G20
        /\ e.tx.from = e.addr
        /\ e.tx.gasFeeCap = FromNat(9)}

\* one entry repeated n times
Repeat(e, n) == [j \in 1..n |-> e]
UniformLens ==
    {1, MAX_TRANSACTIONS_PER_INCLUSION_LIST,
     MAX_TRANSACTIONS_PER_INCLUSION_LIST + 1,
     MAX_TRANSACTIONS_PER_INCLUSION_LIST + 2}
UniformLists == {Repeat(e, n) : e \in FullEntries, n \in UniformLens}

\* types.InclusionList of a list of pairs
MkList(l) ==
    [Summary |-> [j \in 1..Len(l) |->
                    [Address |-> l[j].addr, GasLimit |-> U32(l[j].tx.gas)]],
     Transactions |-> [j \in 1..Len(l) |-> l[j].tx]]

Front(s) == SubSeq(s, 1, Len(s) - 1)

\* The inclusion lists given to verifyInclusionList:
\*  - at most MaxLen entries, at most one of them outside GoodEntries;
\*  - one entry repeated, up to more than the maximum length;
\*  - the latter with the last summary entry or the last transaction dropped.
IsValidateList(v) ==
    \/ \E n \in 0..MaxLen : \E g \in [1..n -> GoodEntries] : v = MkList(g)
    \/ \E n \in 1..MaxLen : \E g \in [1..n -> GoodEntries] :
         \E p \in 1..n, e \in FullEntries \ GoodEntries :
            v = MkList([g EXCEPT ![p] = e])
    \/ \E l \in UniformLists :
         \/ Len(l) > 1 /\ v = MkList(l)
         \/ v = [MkList(l) EXCEPT !.Summary = Front(@)]
         \/ v = [MkList(l) EXCEPT !.Transactions = Front(@)]

\* getStateNonce: the state nonce of every address
StateNonces == {[a \in Addresses |-> 0], [a \in Addresses |-> IF a = "A" THEN 1 ELSE 0]}

Revisions == {"core", "typed"}

VARIABLES
    rev,              \* the revision of verifyInclusionList that runs
    list,             \* argument list
    currentBaseFee,   \* eip1559.CalcBaseFee(config, parent)
    getStateNonce,    \* argument getStateNonce
    pc,               \* position in verifyInclusionList
    i,                \* index of the loop over list.Summary (1-based)
    gasLimit,         \* local gasLimit (uint64)
    nonceCache,       \* local nonceCache
    gasFeeThreshold,  \* local gasFeeThreshold, as 8 times its value
    result,           \* the returned verdict
    trace,            \* the checks evaluated so far, in order
    oracleCalls,      \* the calls of getStateNonce so far, per address
    calls,            \* the calls of verifyInclusionList that have returned
    \* verifyInclusionListInBlock
    exclusionList,    \* argument exclusionList
    parentTxs,        \* argument parentTxs
    currentTxs,       \* argument currentTxs
    summaries,        \* local summaries: address -> gas limits still owed
    ilTxs,            \* local ilTxs: the hashes of list.Transactions
    exclusions,       \* local exclusions
    ex,               \* position of the loop over exclusionList (1-based)
    index,            \* local index of the loop over currentTxs (0-based)
    pops              \* the summary entries popped so far, in order

vvars == <<rev, currentBaseFee, getStateNonce, i, gasLimit,
           nonceCache, gasFeeThreshold, trace, oracleCalls, calls>>
rvars == <<exclusionList, parentTxs, currentTxs, summaries, ilTxs,
           exclusions, ex, index, pops>>
vars == <<list, pc, result, vvars, rvars>>

(***************************************************************************)
(* math/big as verifyInclusionList uses it.  A big.Float made by SetInt(x) *)
(* has precision max(x.BitLen(), 64) and holds x exactly; SetFloat64(1.125)*)
(* has precision 53 and mantissa 9 (1.125 = 9/8); Mul rounds the exact     *)
(* product to the larger of the two precisions, to nearest even.           *)
(***************************************************************************)
\* p rounded to prec significant bits, to nearest even (fewer than 16 bits
\* are dropped: the product 9 * x is at most 4 bits longer than x)
RoundToNearestEven(p, prec) ==
    LET d == BitLen(p) - prec
    IN  IF d <= 0 THEN p
        ELSE LET low   == p[1] % (2^d)
                 half  == 2^(d - 1)
                 odd   == (p[1] \div (2^d)) % 2 = 1
                 floor == SubL(p, FromNat(low))
             IN  IF low > half \/ (low = half /\ odd)
                 THEN AddL(floor, Pow2(d))
                 ELSE floor

\* gasFeeThreshold := 1.125 * currentBaseFee, as 8 times its value
GasFeeThreshold(baseFee) ==
    LET prec == IF BitLen(baseFee) > 64 THEN BitLen(baseFee) ELSE 64
    IN  RoundToNearestEven(MulSmall(baseFee, 9), prec)

\* new(big.Float).SetInt(cap).Cmp(gasFeeThreshold) == -1
BelowThreshold(cap, threshold) == CmpL(MulSmall(cap, 8), threshold) = -1

\* gasLimit > MAX_GAS_PER_INCLUSION_LIST
GasExceeds(g) == CmpL(g, MAX_GAS_PER_INCLUSION_LIST) = 1

\* mutant: only a longer summary counts as a mismatch
LengthMismatch_SummaryLonger(l) == Len(l.Summary) > Len(l.Transactions)

\* len(list.Summary) != len(list.Transactions)
LengthMismatch(l) == Len(l.Summary) # Len(l.Transactions)

\* mutant: the maximum off by one
TooMany_OffByOne(l) == Len(l.Summary) > MAX_TRANSACTIONS_PER_INCLUSION_LIST + 1

\* len(list.Summary) > MAX_TRANSACTIONS_PER_INCLUSION_LIST
TooMany(l) == Len(l.Summary) > MAX_TRANSACTIONS_PER_INCLUSION_LIST

\* mutant: the comparison inverted
SenderDiffers_Inverted(summary, from) == summary.Address = from

\* summary.Address != from
SenderDiffers(summary, from) == summary.Address # from

\* tx.Type() == types.BlobTxType
IsBlob(tx) == tx.type = BlobTxType

\* mutant: the error of types.Sender ignored
SenderFails_Ignored(tx) == FALSE

\* from, err := types.Sender(signer, tx): err != nil
SenderFails(tx) == tx.from = NoSender

\* mutant: the cached nonce is not used
ResolvedNonce_OracleOnly(cache, state, from) == state

\* the nonce a transaction is compared with
ResolvedNonce(cache, state, from) ==
    IF from \in DOMAIN cache THEN cache[from] ELSE state

\* src/core/inclusion_list.go: if tx.Nonce() == nonce+1 { nonceCache[from] = tx.Nonce() }
NonceMatchesCore(txNonce, nonce) == txNonce = nonce + 1
CachedAfterCore(txNonce, nonce) == txNonce

\* the typed revision: if tx.Nonce() == nonce { nonceCache[from] = nonce + 1 }
NonceMatchesTyped(txNonce, nonce) == txNonce = nonce
CachedAfterTyped(txNonce, nonce) == nonce + 1

\* the nonce rule of the revision that runs (nonces stay far below 2^64)
NonceMatches(r, txNonce, nonce) ==
    IF r = "core" THEN NonceMatchesCore(txNonce, nonce)
    ELSE NonceMatchesTyped(txNonce, nonce)

\* the value cached for the sender after a match
CachedAfter(r, txNonce, nonce) ==
    IF r = "core" THEN CachedAfterCore(txNonce, nonce)
    ELSE CachedAfterTyped(txNonce, nonce)

\* mutant: the cache outlives the call
FreshCache_Shared == nonceCache

\* nonceCache := make(map[common.Address]uint64)
FreshCache == << >>

\* cache with from |-> v
Store(cache, from, v) ==
    [a \in DOMAIN cache \cup {from} |-> IF a = from THEN v ELSE cache[a]]

ChecksPerEntry ==
    <<ErrUnsupportedTxType, ErrGasLimitExceeded, ErrInvalidTx,
      ErrSenderMismatch, ErrIncorrectNonce, ErrInsufficientGasFeeCap>>

\* the first c checks of entry k
Evaluated(k, c) == [j \in 1..c |-> <<ChecksPerEntry[j], k>>]

InitValidate ==
    /\ rev \in Revisions
    /\ IsValidateList(list)
    /\ currentBaseFee = SmallBaseFee
    /\ getStateNonce \in StateNonces
    /\ pc = "length"
    /\ i = 1
    /\ gasLimit = << >>
    /\ nonceCache = << >>
    /\ gasFeeThreshold = << >>
    /\ result = Running
    /\ trace = << >>
    /\ oracleCalls = [a \in Addresses |-> 0]
    /\ calls = << >>
    /\ exclusionList = << >>
    /\ parentTxs = << >>
    /\ currentTxs = << >>
    /\ summaries = << >>
    /\ ilTxs = {}
    /\ exclusions = 0
    /\ ex = 1
    /\ index = 0
    /\ pops = << >>

\* return false, err
ReturnError(kind) ==
    /\ pc' = "done"
    /\ result' = kind

\* if len(list.Summary) != len(list.Transactions)
CheckLength ==
    /\ pc = "length"
    /\ trace' = Append(trace, <<ErrSizeMismatch, 0>>)
    /\ IF LengthMismatch(list)
       THEN ReturnError(ErrSizeMismatch)
       ELSE pc' = "max" /\ result' = result
    /\ UNCHANGED <<rev, list, currentBaseFee, getStateNonce, i, gasLimit,
                   nonceCache, gasFeeThreshold, oracleCalls, calls, rvars>>

\* if len(list.Summary) > MAX_TRANSACTIONS_PER_INCLUSION_LIST, then the
\* set-up of the loop
CheckMax ==
    /\ pc = "max"
    /\ trace' = Append(trace, <<ErrSizeExceeded, 0>>)
    /\ IF TooMany(list)
       THEN /\ ReturnError(ErrSizeExceeded)
            /\ UNCHANGED <<gasFeeThreshold, nonceCache, gasLimit, i>>
       ELSE /\ gasFeeThreshold' = GasFeeThreshold(currentBaseFee)
            /\ nonceCache' = FreshCache
            /\ gasLimit' = << >>
            /\ i' = 1
            /\ pc' = "loop"
            /\ result' = result
    /\ UNCHANGED <<rev, list, currentBaseFee, getStateNonce, oracleCalls, calls,
                   rvars>>

\* one iteration of: for i, summary := range list.Summary
VerifyEntry ==
    /\ pc = "loop"
    /\ i <= Len(list.Summary)
    /\ LET summary == list.Summary[i]
           tx      == list.Transactions[i]
           total   == U64Add(gasLimit, tx.gas)
           from    == tx.from
           nonce   == ResolvedNonce(nonceCache, getStateNonce[from], from)
       IN  IF IsBlob(tx)
           THEN /\ ReturnError(ErrUnsupportedTxType)
                /\ trace' = trace \o Evaluated(i, 1)
                /\ UNCHANGED <<i, gasLimit, nonceCache, oracleCalls>>
           ELSE IF GasExceeds(total)
           THEN /\ ReturnError(ErrGasLimitExceeded)
                /\ trace' = trace \o Evaluated(i, 2)
                /\ gasLimit' = total
                /\ UNCHANGED <<i, nonceCache, oracleCalls>>
           ELSE IF SenderFails(tx)
           THEN /\ ReturnError(ErrInvalidTx)
                /\ trace' = trace \o Evaluated(i, 3)
                /\ gasLimit' = total
                /\ UNCHANGED <<i, nonceCache, oracleCalls>>
           ELSE IF SenderDiffers(summary, from)
           THEN /\ ReturnError(ErrSenderMismatch)
                /\ trace' = trace \o Evaluated(i, 4)
                /\ gasLimit' = total
                /\ UNCHANGED <<i, nonceCache, oracleCalls>>
           ELSE IF ~NonceMatches(rev, tx.nonce, nonce)
           THEN /\ ReturnError(ErrIncorrectNonce)
                /\ trace' = trace \o Evaluated(i, 5)
                /\ gasLimit' = total
                /\ oracleCalls' = [oracleCalls EXCEPT ![from] = @ + 1]
                /\ UNCHANGED <<i, nonceCache>>
           ELSE IF BelowThreshold(tx.gasFeeCap, gasFeeThreshold)
           THEN /\ ReturnError(ErrInsufficientGasFeeCap)
                /\ trace' = trace \o Evaluated(i, 6)
                /\ gasLimit' = total
                /\ oracleCalls' = [oracleCalls EXCEPT ![from] = @ + 1]
                /\ nonceCache' = Store(nonceCache, from,
                                       CachedAfter(rev, tx.nonce, nonce))
                /\ UNCHANGED i
           ELSE /\ pc' = "loop"
                /\ result' = result
                /\ trace' = trace \o Evaluated(i, 6)
                /\ gasLimit' = total
                /\ oracleCalls' = [oracleCalls EXCEPT ![from] = @ + 1]
                /\ nonceCache' = Store(nonceCache, from,
                                       CachedAfter(rev, tx.nonce, nonce))
                /\ i' = i + 1
    /\ UNCHANGED <<rev, list, currentBaseFee, getStateNonce, gasFeeThreshold,
                   calls, rvars>>

\* return true, nil
ReturnTrue ==
    /\ pc = "loop"
    /\ i > Len(list.Summary)
    /\ pc' = "done"
    /\ result' = Success
    /\ UNCHANGED <<list, vvars, rvars>>

(***************************************************************************)
(* Inputs about the fee check: one or two entries that pass every other    *)
(* check, with base fees up to more than 64 bits and fee caps around       *)
(* 1.125 times each of them.                                               *)
(***************************************************************************)
Gwei == FromNat(1000000000)
FeeBases ==
    {<< >>, FromNat(1), FromNat(8), Gwei, Pow2(60), AddL(Pow2(60), FromNat(1)),
     AddL(Pow2(61), FromNat(1)), AddL(Pow2(61), FromNat(3)),
     SubL(Pow2(64), FromNat(1)), AddL(Pow2(80), FromNat(1))}

\* the integers around 9b/8
CapsNear(b) ==
    LET q == DivSmall(MulSmall(b, 9), 8)
    IN  {q, AddL(q, FromNat(1)), AddL(q, FromNat(2))}
        \cup (IF q = << >> THEN {} ELSE {SubL(q, FromNat(1))})
        \cup (IF CmpL(q, FromNat(2)) = 1 THEN {SubL(q, FromNat(2))} ELSE {})

FeeTx(a, n, t, c) ==
    [type |-> t, gas |-> G20, from |-> a, nonce |-> n, gasFeeCap |-> c]

InitFee ==
    /\ rev \in Revisions
    /\ \E b \in FeeBases :
         /\ currentBaseFee = b
         /\ \E c \in CapsNear(b), d \in CapsNear(b), n \in 0..1, m \in 0..2,
               t \in TxTypes :
              list = MkList(<<[addr |-> "A", tx |-> FeeTx("A", n, "LegacyTxType", c)],
                              [addr |-> "A", tx |-> FeeTx("A", m, t, d)]>>)
    /\ getStateNonce = [a \in Addresses |-> 0]
    /\ pc = "length"
    /\ i = 1
    /\ gasLimit = << >>
    /\ nonceCache = << >>
    /\ gasFeeThreshold = << >>
    /\ result = Running
    /\ trace = << >>
    /\ oracleCalls = [a \in Addresses |-> 0]
    /\ calls = << >>
    /\ exclusionList = << >>
    /\ parentTxs = << >>
    /\ currentTxs = << >>
    /\ summaries = << >>
    /\ ilTxs = {}
    /\ exclusions = 0
    /\ ex = 1
    /\ index = 0
    /\ pops = << >>

NextValidate == CheckLength \/ CheckMax \/ VerifyEntry \/ ReturnTrue

(***************************************************************************)
(* Several calls of verifyInclusionList, one after the other, on the same  *)
(* list: the caller draws the answers of getStateNonce anew for each call. *)
(* A call that has returned leaves its locals where they were; the next    *)
(* call assigns its own (lines 35-47) before it reads them.                *)
(***************************************************************************)
\* most calls in a row
MaxCalls == 2

\* entries on which only the nonce and the fee check can fail
NonceEntries ==
    {e \in FullEntries :
        /\ e.tx.type # BlobTxType
        /\ e.tx.gas = G20
        /\ e.tx.from = e.addr}

InitCalls ==
    /\ rev \in Revisions
    /\ \E n \in 0..MaxLen : \E g \in [1..n -> NonceEntries] : list = MkList(g)
    /\ currentBaseFee = SmallBaseFee
    /\ getStateNonce \in StateNonces
    /\ pc = "length"
    /\ i = 1
    /\ gasLimit = << >>
    /\ nonceCache = << >>
    /\ gasFeeThreshold = << >>
    /\ result = Running
    /\ trace = << >>
    /\ oracleCalls = [a \in Addresses |-> 0]
    /\ calls = << >>
    /\ exclusionList = << >>
    /\ parentTxs = << >>
    /\ currentTxs = << >>
    /\ summaries = << >>
    /\ ilTxs = {}
    /\ exclusions = 0
    /\ ex = 1
    /\ index = 0
    /\ pops = << >>

\* the caller notes the verdict and calls verifyInclusionList again
CallAgain ==
    /\ pc = "done"
    /\ Len(calls) + 1 < MaxCalls
    /\ calls' = Append(calls, [getStateNonce |-> getStateNonce,
                               result |-> result])
    /\ getStateNonce' \in StateNonces
    /\ pc' = "length"
    /\ result' = Running
    /\ trace' = << >>
    /\ oracleCalls' = [a \in Addresses |-> 0]
    /\ UNCHANGED <<rev, list, currentBaseFee, i, gasLimit, nonceCache,
                   gasFeeThreshold, rvars>>

NextCalls == NextValidate \/ CallAgain

(***************************************************************************)
(* verifyInclusionListInBlock (src/unnamed/part_000:310-381)               *)
(***************************************************************************)
ErrMissingSummaryEntry == "MissingSummaryEntry"
ErrMissingInclusionInBlock == "MissingInclusionInBlock"
ErrInvalidGasLimit == "InvalidGasLimit"
\* runtime panic: index out of range
Panic == "panic"

\* most indices in an exclusion list
MaxExcl == 2
\* most transactions of the current block
MaxCur == 2

\* more than 2^32: uint32 keeps 2^20 of it
G32 == AddL(Pow2(32), Pow2(20))

\* tx.Hash(): the hash of the transaction's content
Hash(tx) == <<tx.type, tx.gas, tx.from, tx.nonce, tx.gasFeeCap>>

\* the transaction of sender a with gas limit g
TxOf(a, g) ==
    [type |-> "LegacyTxType", gas |-> g, from |-> a, nonce |-> 0,
     gasFeeCap |-> FromNat(9)]

SummaryEntries ==
    {[Address |-> "A", GasLimit |-> G20], [Address |-> "A", GasLimit |-> G21],
     [Address |-> "B", GasLimit |-> G20]}

\* an inclusion list whose transactions are those its summary was made of
ListOf(s) ==
    [Summary |-> s,
     Transactions |-> [j \in 1..Len(s) |-> TxOf(s[j].Address, s[j].GasLimit)]]

\* the parent block; an exclusion index Len(ParentBlock) is out of range
ParentBlock == <<TxOf("A", G20), TxOf(NoSender, G20)>>

CurrentPool ==
    {TxOf(a, g) : a \in Addresses, g \in {G20, G21}}
    \cup {TxOf("A", G32), TxOf(NoSender, G20)}

SeqsUpTo(S, n) == UNION {[1..m -> S] : m \in 0..n}

InitReconcile ==
    /\ \E s \in SeqsUpTo(SummaryEntries, MaxLen) : list = ListOf(s)
    /\ exclusionList \in SeqsUpTo(0..Len(ParentBlock), MaxExcl)
    /\ parentTxs = ParentBlock
    /\ currentTxs \in SeqsUpTo(CurrentPool, MaxCur)
    /\ pc = "build"
    /\ result = Running
    /\ summaries = << >>
    /\ ilTxs = {}
    /\ exclusions = 0
    /\ ex = 1
    /\ index = 0
    /\ pops = << >>
    /\ rev = "typed"
    /\ currentBaseFee = SmallBaseFee
    /\ getStateNonce = [a \in Addresses |-> 0]
    /\ i = 1
    /\ gasLimit = << >>
    /\ nonceCache = << >>
    /\ gasFeeThreshold = << >>
    /\ trace = << >>
    /\ oracleCalls = [a \in Addresses |-> 0]
    /\ calls = << >>

\* mutant: the gas limit replaces the queue instead of being appended
BuildSummaries_LastOnly(s) ==
    [a \in {s[j].Address : j \in 1..Len(s)} |->
        <<s[CHOOSE j \in 1..Len(s) :
                /\ s[j].Address = a
                /\ \A h \in (j + 1)..Len(s) : s[h].Address # a].GasLimit>>]

\* summaries[summary.Address] = append(summaries[summary.Address], summary.GasLimit)
RECURSIVE BuildSummaries(_)
BuildSummaries(s) ==
    IF s = << >> THEN << >>
    ELSE LET m == BuildSummaries(Front(s))
             e == s[Len(s)]
         IN  Store(m, e.Address,
                   IF e.Address \in DOMAIN m
                   THEN Append(m[e.Address], e.GasLimit)
                   ELSE <<e.GasLimit>>)

\* entries, ok := summaries[from]; !ok || len(entries) == 0
NoEntry(m, from) == from \notin DOMAIN m \/ Len(m[from]) = 0

\* mutant: the obligation stays in the queue
Pop_Keep(m, from) == m

\* summaries[from] = summaries[from][1:]
Pop(m, from) == [m EXCEPT ![from] = Tail(@)]

\* summaries[from][0] > uint32(tx.Gas())
GasBelow(bound, gas) == CmpL(bound, U32(gas)) = 1

\* the for statement's exit: if exclusions < len(list.Summary) { break }
LoopBreaks(n, total) == n < total

\* the two maps and the signer, before the loops
BuildMaps ==
    /\ pc = "build"
    /\ summaries' = BuildSummaries(list.Summary)
    /\ ilTxs' = {Hash(list.Transactions[j]) : j \in 1..Len(list.Transactions)}
    /\ exclusions' = 0
    /\ ex' = 1
    /\ pc' = "exclusions"
    /\ UNCHANGED <<list, result, vvars, exclusionList, parentTxs, currentTxs,
                   index, pops>>

\* one iteration of: for _, index := range exclusionList
ExcludeStep ==
    /\ pc = "exclusions"
    /\ ex <= Len(exclusionList)
    /\ IF exclusionList[ex] >= Len(parentTxs)
       THEN /\ ReturnError(Panic)
            /\ UNCHANGED <<summaries, exclusions, ex, pops>>
       ELSE LET tx   == parentTxs[exclusionList[ex] + 1]
                from == tx.from
            IN  IF SenderFails(tx)
                THEN /\ ReturnError(ErrInvalidTx)
                     /\ UNCHANGED <<summaries, exclusions, ex, pops>>
                ELSE IF NoEntry(summaries, from)
                THEN /\ ReturnError(ErrMissingSummaryEntry)
                     /\ UNCHANGED <<summaries, exclusions, ex, pops>>
                ELSE /\ summaries' = Pop(summaries, from)
                     /\ exclusions' = exclusions + 1
                     /\ pops' = Append(pops, [phase |-> "parent", from |-> from,
                                              bound |-> summaries[from][1],
                                              gas |-> tx.gas])
                     /\ ex' = ex + 1
                     /\ pc' = pc
                     /\ result' = result
    /\ UNCHANGED <<list, vvars, exclusionList, parentTxs, currentTxs, ilTxs,
                   index>>

\* index := 0
ExcludeDone ==
    /\ pc = "exclusions"
    /\ ex > Len(exclusionList)
    /\ index' = 0
    /\ pc' = "current"
    /\ UNCHANGED <<list, result, vvars, exclusionList, parentTxs, currentTxs,
                   summaries, ilTxs, exclusions, ex, pops>>

\* one iteration of the for statement over currentTxs, or its exit and
\* return true, nil
CurrentStep ==
    /\ pc = "current"
    /\ IF LoopBreaks(exclusions, Len(list.Summary))
       THEN /\ pc' = "done"
            /\ result' = Success
            /\ UNCHANGED <<summaries, exclusions, index, pops>>
       ELSE IF index >= Len(currentTxs)
       THEN /\ ReturnError(Panic)
            /\ UNCHANGED <<summaries, exclusions, index, pops>>
       ELSE LET tx   == currentTxs[index + 1]
                from == tx.from
            IN  IF SenderFails(tx)
                THEN /\ ReturnError(ErrInvalidTx)
                     /\ UNCHANGED <<summaries, exclusions, index, pops>>
                ELSE IF NoEntry(summaries, from)
                THEN /\ ReturnError(ErrMissingInclusionInBlock)
                     /\ UNCHANGED <<summaries, exclusions, index, pops>>
                ELSE IF GasBelow(summaries[from][1], tx.gas)
                THEN /\ ReturnError(ErrInvalidGasLimit)
                     /\ UNCHANGED <<summaries, exclusions, index, pops>>
                ELSE /\ summaries' = Pop(summaries, from)
                     /\ exclusions' = exclusions + 1
                     /\ pops' = Append(pops, [phase |-> "current", from |-> from,
                                              bound |-> summaries[from][1],
                                              gas |-> tx.gas])
                     /\ IF Hash(tx) \notin ilTxs
                        THEN /\ ReturnError(ErrMissingInclusionInBlock)
                             /\ UNCHANGED index
                        ELSE /\ index' = index + 1
                             /\ pc' = pc
                             /\ result' = result
    /\ UNCHANGED <<list, vvars, exclusionList, parentTxs, currentTxs, ilTxs, ex>>

NextReconcile == BuildMaps \/ ExcludeStep \/ ExcludeDone \/ CurrentStep

Init == InitValidate
Next == NextValidate
Spec == Init /\ [][Next]_vars

SpecFee == InitFee /\ [][NextValidate]_vars

SpecCalls == InitCalls /\ [][NextCalls]_vars

SpecReconcile == InitReconcile /\ [][NextReconcile]_vars

(***************************************************************************)
(* Properties of verifyInclusionList.                                      *)
(***************************************************************************)
Done == pc = "done"
S == list.Summary
T == list.Transactions

\* the sum of the first k gas limits, as a number
RECURSIVE MathSum(_, _)
MathSum(t, k) == IF k = 0 THEN << >> ELSE AddL(MathSum(t, k - 1), t[k].gas)

\* the number of entries before k with the sender of entry k
Earlier(t, k) == Cardinality({j \in 1..(k - 1) : t[j].from = t[k].from})

\* a <= b
Leq(a, b) == CmpL(a, b) # 1

\* every check of the contract holds of the list
AllChecksHold ==
    /\ Len(S) = Len(T)
    /\ Len(S) <= 16
    /\ \A k \in 1..Len(T) :
         /\ T[k].type # "BlobTxType"
         /\ Leq(MathSum(T, k), FromNat(2097152))
         /\ T[k].from \in Addresses
         /\ T[k].from = S[k].Address
         /\ T[k].nonce = getStateNonce[T[k].from] + Earlier(T, k)
         /\ Leq(MulSmall(currentBaseFee, 9), MulSmall(T[k].gasFeeCap, 8))

\* C1: validate returns success for every list in which all checks hold
\* (equal lengths, at most 16 entries, no blob transaction, every prefix sum
\* of gas limits at most 2,097,152, every sender recovered and equal to the
\* summary address, every nonce the state nonce plus the number of earlier
\* entries of the sender, every fee cap at least 1.125 times the base fee).
C1_ValidListAccepted == (Done /\ AllChecksHold) => result = Success

\* The checks in the order of the contract: the two size checks, then the six
\* checks of each entry in ascending order.
FixedOrder(n) ==
    <<<<ErrSizeMismatch, 0>>, <<ErrSizeExceeded, 0>>>>
    \o [j \in 1..(6 * n) |->
          <<ChecksPerEntry[((j - 1) % 6) + 1], ((j - 1) \div 6) + 1>>]

\* the uint64 total of the first k gas limits
RECURSIVE WrapSum(_, _)
WrapSum(t, k) == IF k = 0 THEN << >> ELSE Trunc(AddL(WrapSum(t, k - 1), t[k].gas), 4)

\* check c of entry k fails, as verifyInclusionList decides it when all
\* entries before k have passed
Fails(k, c) ==
    CASE c = 1 -> T[k].type = "BlobTxType"
      [] c = 2 -> CmpL(WrapSum(T, k), FromNat(2097152)) = 1
      [] c = 3 -> T[k].from = NoSender
      [] c = 4 -> T[k].from # S[k].Address
      [] c = 5 -> \/ T[k].from \notin Addresses
                  \/ T[k].nonce # getStateNonce[T[k].from] + Earlier(T, k)
                                   + (IF rev = "core" THEN 1 ELSE 0)
      [] c = 6 -> CmpL(MulSmall(T[k].gasFeeCap, 8),
                       GasFeeThreshold(currentBaseFee)) = -1

\* the position in FixedOrder of the first failing check, 0 if there is none
FirstFailure ==
    IF Len(S) # Len(T) THEN 1
    ELSE IF Len(S) > 16 THEN 2
    ELSE LET bad == {j \in 1..(6 * Len(S)) :
                        Fails(((j - 1) \div 6) + 1, ((j - 1) % 6) + 1)}
         IN  IF bad = {} THEN 0
             ELSE 2 + CHOOSE j \in bad : \A h \in bad : j <= h

IsPrefix(a, b) == Len(a) <= Len(b) /\ a = SubSeq(b, 1, Len(a))

\* C2: validate evaluates its checks in the fixed order SizeMismatch,
\* SizeExceeded, then per entry UnsupportedTxType, GasLimitExceeded, InvalidTx,
\* SenderMismatch, IncorrectNonce, InsufficientGasFeeCap; it returns the kind
\* of the first check that fails, and evaluates no check after it.
C2_FixedOrderFirstFailure ==
    /\ IsPrefix(trace, FixedOrder(Len(S)))
    /\ Done =>
         LET f == FirstFailure
         IN  IF f = 0
             THEN result = Success /\ trace = FixedOrder(Len(S))
             ELSE /\ result = FixedOrder(Len(S))[f][1]
                  /\ trace = SubSeq(FixedOrder(Len(S)), 1, f)

\* an entry that fails two checks is reported with the earlier one
C2_Witness ==
    /\ Done
    /\ result = ErrGasLimitExceeded
    /\ Len(trace) = 10
    /\ Fails(2, 3)
    /\ Fails(2, 6)

\* C6: for all lists with len(summary) # len(transactions), validate returns
\* SizeMismatch, whatever the contents and the two lengths.
C6_SizeMismatch ==
    (Len(S) # Len(T) /\ pc # "length") => (Done /\ result = ErrSizeMismatch)

\* both lengths above the maximum
C6_Witness ==
    /\ Done
    /\ result = ErrSizeMismatch
    /\ Len(S) = 18
    /\ Len(T) = 17

\* C7: for all lists with more than 16 entries (summary and transactions of
\* equal length), validate returns SizeExceeded independent of content.
C7_SizeExceeded ==
    (Len(S) = Len(T) /\ Len(S) > 16 /\ pc \notin {"length", "max"})
        => (Done /\ result = ErrSizeExceeded)

\* a list of 17 entries that pass every check of the entries but the nonce's
C7_Witness ==
    /\ Done
    /\ result = ErrSizeExceeded
    /\ Len(S) = 17
    /\ T[1].type # "BlobTxType"
    /\ T[1].from = S[1].Address
    /\ T[1].gas = G20

\* sender recovery of entry k was reached: the entries before k passed and
\* entry k passed the kind and the gas check
Recovered(k) ==
    /\ \E j \in 1..Len(trace) : trace[j] = <<ErrInvalidTx, k>>
    /\ T[k].from \in Addresses

\* C8: for every entry whose summary address differs from the recovered sender
\* of the transaction at the same index (earlier entries passing, the entry
\* passing the kind and gas checks), validate returns SenderMismatch; the
\* match is positional.
C8_SenderMismatch ==
    \A k \in 1..Len(T) :
        (Len(S) = Len(T) /\ Recovered(k) /\ S[k].Address # T[k].from)
            => (Done /\ result = ErrSenderMismatch)

\* the sender of the first transaction is the summary address of the second
\* entry only
C8_Witness ==
    /\ Done
    /\ result = ErrSenderMismatch
    /\ Len(S) = 2
    /\ Recovered(1)
    /\ S[1].Address # T[1].from
    /\ S[2].Address = T[1].from

\* the nonce check of entry k was reached
NonceChecked(k) == \E j \in 1..Len(trace) : trace[j] = <<ErrIncorrectNonce, k>>

\* C3: the first entry of a sender must carry exactly the nonce the oracle
\* returns for the sender (not that value plus one), each later entry of the
\* sender the nonce of the previous one plus one; any deviation, and only a
\* deviation, makes validate return IncorrectNonce.
C3_NonceRun ==
    \A k \in 1..Len(T) :
        (Len(S) = Len(T) /\ NonceChecked(k)) =>
            ((result = ErrIncorrectNonce /\ trace[Len(trace)] = <<ErrIncorrectNonce, k>>)
                <=> T[k].nonce # getStateNonce[T[k].from] + Earlier(T, k))

\* the fee check of entry k was reached
FeeChecked(k) == \E j \in 1..Len(trace) : trace[j] = <<ErrInsufficientGasFeeCap, k>>

\* C4: an entry that passes all earlier checks is rejected with
\* InsufficientGasFeeCap exactly when 8 * gasFeeCap < 9 * base fee, for every
\* base fee and fee cap.
C4_ExactThreshold ==
    \A k \in 1..Len(T) :
        (Len(S) = Len(T) /\ FeeChecked(k)) =>
            ((result = ErrInsufficientGasFeeCap
                /\ trace[Len(trace)] = <<ErrInsufficientGasFeeCap, k>>)
             <=> CmpL(MulSmall(T[k].gasFeeCap, 8), MulSmall(currentBaseFee, 9)) = -1)

\* entry k was reached: the entries before k passed all checks
Reached(k) == \E j \in 1..Len(trace) : trace[j] = <<ErrUnsupportedTxType, k>>

\* C5: for a list whose running sum of gas limits first exceeds 2,097,152 at
\* entry k (the entries before k passing, entry k not a blob transaction),
\* validate returns GasLimitExceeded at entry k, before the sender, nonce and
\* fee checks of entry k and before any check of a later entry.
C5_GasLimitAtPrefix ==
    \A k \in 1..Len(T) :
        (/\ Len(S) = Len(T)
         /\ Done
         /\ Reached(k)
         /\ T[k].type # "BlobTxType"
         /\ CmpL(MathSum(T, k), FromNat(2097152)) = 1
         /\ \A j \in 1..(k - 1) : Leq(MathSum(T, j), FromNat(2097152)))
            => (result = ErrGasLimitExceeded
                /\ trace[Len(trace)] = <<ErrGasLimitExceeded, k>>)

\* the verdict the checks give for the arguments of the call
VerdictOf ==
    IF FirstFailure = 0 THEN Success ELSE FixedOrder(Len(S))[FirstFailure][1]

C19_OracleOncePerSender == \A a \in Addresses : oracleCalls[a] <= 1

\* the last entry before k with the sender of entry k
Previous(t, k) ==
    CHOOSE j \in 1..(k - 1) :
        /\ t[j].from = t[k].from
        /\ \A h \in (j + 1)..(k - 1) : t[h].from # t[k].from

\* C19, amended: within one validate call the nonce oracle is queried once
\* for every entry that reaches the nonce check, whether or not the sender was
\* seen before in that call; for a later entry of an already-seen sender the
\* cached value, the nonce of the sender's previous entry plus one, is the
\* one the transaction's nonce must equal, not the oracle's answer.
C19_OracleOncePerEntry ==
    /\ \A a \in Addresses :
          oracleCalls[a] =
              IF Len(S) = Len(T)
              THEN Cardinality({k \in 1..Len(T) : NonceChecked(k) /\ T[k].from = a})
              ELSE 0
    /\ \A k \in 1..Len(T) :
          (Len(S) = Len(T) /\ NonceChecked(k) /\ Earlier(T, k) > 0) =>
              ((result = ErrIncorrectNonce
                  /\ trace[Len(trace)] = <<ErrIncorrectNonce, k>>)
               <=> T[k].nonce # T[Previous(T, k)].nonce + 1)

\* two entries of one sender: two calls of the oracle, and the second entry
\* accepted with a nonce that is not the oracle's answer
C19_Witness ==
    /\ Done
    /\ result = Success
    /\ Len(T) = 2
    /\ T[1].from = "A"
    /\ T[2].from = "A"
    /\ oracleCalls["A"] = 2
    /\ T[2].nonce = getStateNonce["A"] + 1
    /\ rev = "typed"

\* C20: whenever validate returns success the mathematical sum of the gas
\* limits of all transactions of the list is at most 2,097,152; a list with
\* a gas limit close to 2^64, which wraps the 64-bit running total to a value
\* at or below 2,097,152, is still rejected with GasLimitExceeded.
C20_NoWrapAccepted ==
    (Done /\ result = Success) => Leq(MathSum(T, Len(T)), FromNat(2097152))

(***************************************************************************)
(* Properties of verifyInclusionListInBlock.                               *)
(***************************************************************************)
\* C9: whenever reconcile returns success every obligation of list.summary
\* has been satisfied: the obligations popped in the two phases number
\* len(list.summary) and every queue is empty.
C9_SuccessMeansSatisfied ==
    (Done /\ result = Success) =>
        /\ exclusions = Len(S)
        /\ Len(pops) = Len(S)
        /\ \A a \in DOMAIN summaries : summaries[a] = << >>

\* the gas-limit bounds of the summary entries of address a, in order
Owed(a) ==
    LET mine == SelectSeq(S, LAMBDA e : e.Address = a)
    IN  [j \in 1..Len(mine) |-> mine[j].GasLimit]

\* the queues after the parent transactions at the indices x have each
\* removed an obligation of their sender; ok is false if one of them cannot
RECURSIVE AfterExclusions(_)
AfterExclusions(x) ==
    IF x = << >> THEN [ok |-> TRUE, q |-> [a \in Addresses |-> Owed(a)]]
    ELSE LET before == AfterExclusions(Front(x))
             n      == x[Len(x)]
         IN  IF /\ before.ok
                /\ n < Len(parentTxs)
                /\ parentTxs[n + 1].from \in Addresses
                /\ before.q[parentTxs[n + 1].from] # << >>
             THEN [ok |-> TRUE,
                   q |-> [before.q EXCEPT ![parentTxs[n + 1].from] = Tail(@)]]
             ELSE [ok |-> FALSE, q |-> before.q]

\* the queues after the first k current transactions have each met, in
\* order, an obligation of their sender
RECURSIVE AfterPrefix(_)
AfterPrefix(k) ==
    IF k = 0 THEN AfterExclusions(exclusionList)
    ELSE LET before == AfterPrefix(k - 1)
             tx     == currentTxs[k]
         IN  IF /\ before.ok
                /\ tx.from \in Addresses
                /\ before.q[tx.from] # << >>
                /\ Leq(Head(before.q[tx.from]), tx.gas)
                /\ \E j \in 1..Len(T) : T[j] = tx
             THEN [ok |-> TRUE, q |-> [before.q EXCEPT ![tx.from] = Tail(@)]]
             ELSE [ok |-> FALSE, q |-> before.q]

\* every obligation is removed by an exclusion or met by the first k
\* current transactions
SatisfiedBy(k) ==
    /\ AfterPrefix(k).ok
    /\ \A a \in Addresses : AfterPrefix(k).q[a] = << >>

\* C10: reconcile returns success whenever every obligation of the list is
\* either removed by an exclusion index or met, in order, by the first k
\* transactions of currentTransactions.
C10_SatisfiedListSucceeds ==
    (Done /\ \E k \in 0..Len(currentTxs) : SatisfiedBy(k)) => result = Success

\* every index of the exclusion list removes an obligation of its sender
ExclusionsPass == AfterExclusions(exclusionList).ok

\* an obligation is left in the queues q
Outstanding(q) == \E a \in Addresses : q[a] # << >>

\* C11: if the current-block phase has consumed every element of
\* currentTransactions (each meeting an obligation) and obligations are still
\* outstanding, reconcile fails with MissingInclusionInBlock; this includes an
\* empty currentTransactions with an obligation no exclusion covers.
C11_RunOutFails ==
    (/\ Done
     /\ AfterPrefix(Len(currentTxs)).ok
     /\ Outstanding(AfterPrefix(Len(currentTxs)).q))
        => result = "MissingInclusionInBlock"

\* the sender of the parent transaction at position p of the exclusion list
ExcludedSender(p) == parentTxs[exclusionList[p] + 1].from

\* position p is the first of the exclusion list whose sender has no
\* obligation left, the positions before p each having removed one
FirstUnowed(p) ==
    /\ p \in 1..Len(exclusionList)
    /\ AfterExclusions(SubSeq(exclusionList, 1, p - 1)).ok
    /\ exclusionList[p] < Len(parentTxs)
    /\ ExcludedSender(p) \in Addresses
    /\ AfterExclusions(SubSeq(exclusionList, 1, p - 1)).q[ExcludedSender(p)] = << >>

\* C12: in the exclusion phase, if the exclusion list claims an address more
\* often than the address has summary entries (or an address with no entry),
\* reconcile returns MissingSummaryEntry at the first exclusion index whose
\* sender has an empty or absent queue, and only there.
C12_DoubleClaim ==
    /\ \A p \in 1..Len(exclusionList) :
          (FirstUnowed(p) /\ (Done \/ pc = "current" \/ ex > p)) =>
              (/\ Done
               /\ result = "MissingSummaryEntry"
               /\ ex = p
               /\ exclusions = p - 1)
    /\ (Done /\ result = "MissingSummaryEntry") => FirstUnowed(ex)

\* the one summary entry of A is claimed twice
C12_Witness ==
    /\ Done
    /\ result = "MissingSummaryEntry"
    /\ Len(S) = 1
    /\ S[1].Address = "A"
    /\ exclusionList = <<0, 0>>
    /\ ex = 2

\* the first current transaction comes from a sender that has an obligation
\* outstanding after the exclusion phase
FirstOwes ==
    /\ ExclusionsPass
    /\ Len(currentTxs) > 0
    /\ currentTxs[1].from \in Addresses
    /\ AfterExclusions(exclusionList).q[currentTxs[1].from] # << >>

\* the bound the first current transaction is held to
FirstBound == Head(AfterExclusions(exclusionList).q[currentTxs[1].from])

\* C13: in the current-block phase a transaction whose sender has an
\* outstanding obligation is rejected with InvalidGasLimit exactly when its
\* gas limit is strictly below the bound at the head of the sender's queue,
\* for every 64-bit gas limit and every 32-bit bound.
C13_GasBound ==
    (Done /\ FirstOwes) =>
        ((result = "InvalidGasLimit" /\ index = 0)
            <=> CmpL(currentTxs[1].gas, FirstBound) = -1)

\* C14: in the current-block phase a transaction whose hash is not among the
\* hashes of list.transactions never satisfies an obligation: reconcile
\* returns MissingInclusionInBlock for it even if its sender has an
\* outstanding obligation and its gas limit meets the bound.
C14_SubstituteRejected ==
    (/\ Done
     /\ FirstOwes
     /\ Leq(FirstBound, currentTxs[1].gas)
     /\ Hash(currentTxs[1]) \notin {Hash(T[j]) : j \in 1..Len(T)})
        => result = "MissingInclusionInBlock"

\* C16: reconcile ends with a verdict (success or a named error) on every
\* input and never reads parentTransactions or currentTransactions outside
\* their range: the current-block phase visits at most len(currentTransactions)
\* elements and an exclusion index >= len(parentTransactions) does no
\* out-of-range access.
C16_NoOutOfRange ==
    /\ result # "panic"
    /\ index <= Len(currentTxs)

\* C17: when the exclusion phase alone satisfies all len(list.summary)
\* obligations (an empty summary with an empty exclusion list included),
\* reconcile returns success without examining any element of
\* currentTransactions, whatever currentTransactions is.
C17_ExclusionsSuffice ==
    (/\ Done
     /\ ExclusionsPass
     /\ ~Outstanding(AfterExclusions(exclusionList).q))
        => (result = Success /\ index = 0 /\ exclusions = Len(S))

\* the bounds popped for address a, in the order of the pops
PoppedBounds(a) ==
    LET mine == SelectSeq(pops, LAMBDA r : r.from = a)
    IN  [j \in 1..Len(mine) |-> mine[j].bound]

\* C18: the obligations of one address are consumed in the order of their
\* position in list.summary across both phases: the n-th transaction
\* attributed to address A (parent transactions of the exclusion phase first,
\* then current transactions in block order) pops the n-th summary entry of A,
\* and a current transaction's gas limit is compared with that entry's bound.
C18_FifoAcrossPhases ==
    /\ \A a \in Addresses : IsPrefix(PoppedBounds(a), Owed(a))
    /\ (Done /\ Len(currentTxs) > 0 /\ AfterPrefix(1).ok) =>
          \E j \in 1..Len(pops) :
              /\ pops[j].phase = "current"
              /\ pops[j].from = currentTxs[1].from
              /\ pops[j].bound = FirstBound
              /\ Len(PoppedBounds(currentTxs[1].from))
                    > Len(Owed(currentTxs[1].from))
                        - Len(AfterExclusions(exclusionList).q[currentTxs[1].from])

\* the number of obligations queued in m for the addresses of D
RECURSIVE QueuedIn(_, _)
QueuedIn(m, D) ==
    IF D = {} THEN 0
    ELSE LET a == CHOOSE x \in D : TRUE
         IN  Len(m[a]) + QueuedIn(m, D \ {a})

\* the obligations still queued over all addresses
Queued == QueuedIn(summaries, DOMAIN summaries)

\* the counter and the queues balance once the queues are built
Balanced ==
    pc # "build" =>
        /\ exclusions + Queued = Len(S)
        /\ Len(pops) = exclusions

\* a step leaves counter and queues alone, or increments the counter and
\* removes the head of one non-empty queue
PairedStep ==
    \/ exclusions' = exclusions /\ summaries' = summaries
    \/ /\ exclusions' = exclusions + 1
       /\ \E a \in DOMAIN summaries :
             /\ summaries[a] # << >>
             /\ summaries' = [summaries EXCEPT ![a] = Tail(@)]

\* C21: at every point of a reconcile run the satisfied-obligation counter
\* plus the number of obligations still queued over all addresses equals
\* len(list.summary): every increment of the counter is paired with exactly
\* one pop from a non-empty queue, no queue is popped when empty, and
\* list.summary is not modified.
C21_CounterBalancesQueues ==
    /\ []Balanced
    /\ [][list' = list /\ (pc # "build" => PairedStep)]_vars

\* one of two obligations of A removed, the other still queued
C21_Witness ==
    /\ pc = "current"
    /\ Len(S) = 2
    /\ S[1].Address = "A"
    /\ S[2].Address = "A"
    /\ exclusions = 1
    /\ Queued = 1
    /\ summaries["A"] = <<S[2].GasLimit>>
====
